---- MODULE Spec2Model ----
(***************************************************************************)
(* A model of the kicanvas viewer state machine (Viewer: setup, draw,      *)
(* frame callbacks, mouse tracking, picking, selection, load lifecycle)    *)
(* and of the schematic painter dispatch (Painter.layers_for / paint_item  *)
(* and the item painters).                                                 *)
(*                                                                         *)
(* Numbers: opacities, alphas and depths are in hundredths (0.25 is 25,    *)
(* 0.01 is 1); an overlay outline is in tenths of a world unit.            *)
(***************************************************************************)
EXTENDS Integers, Sequences, FiniteSets, TLC

VARIABLES
    viewport,        \* this.viewport is defined (set by setup)
    listening,       \* the canvas listeners of setup are registered
    disposed,        \* disposables.dispose() has run: renderer released
    camera,          \* viewport.camera, the zoom factor of screen_to_world
    mouse_position,  \* this.mouse_position, a world point <<x, y>>
    layers,          \* this.layers: <<>> when undefined, else the layer records
    selected,        \* this.#selected: Null or a BBox record
    loaded_promise,  \* state of this.#loaded_promise
    tasks,           \* pending later(() => this.paint_selected()) tasks
    frames,          \* pending requestAnimationFrame(() => this.on_draw()) callbacks
    calls,           \* the observable calls made by the last handler, in order
    item,            \* painter: the schematic item handed to the painter
    gfx,             \* painter: the renderer's state and theme
    layer_name,      \* painter: the name of the layer being painted
    item_layers,     \* painter: the result of layers_for(item)
    prims,           \* painter: the primitives paint_item emitted
    ppc,             \* painter: "ready" before the item is painted, "painted" after
    activity,        \* side bar: this.#activity
    buttons,         \* side bar: the rendered buttons, name and ariaSelected
    activities,      \* side bar: the kc-ui-activity children and their attributes
    bar_style,       \* side bar: the inline styles of the bar and of its container
    bar_pc,          \* side bar: "rendered", "ready" once the click listener is
                     \* registered, "changed" once change_activity has run
    bar_last         \* side bar: the last operation and its argument

viewer_vars == <<viewport, listening, disposed, camera, mouse_position, layers,
                 selected, loaded_promise, tasks, frames, calls>>
painter_vars == <<item, gfx, layer_name, item_layers, prims, ppc>>
side_bar_vars == <<activity, buttons, activities, bar_style, bar_pc, bar_last>>
vars == <<viewport, listening, disposed, camera, mouse_position, layers,
          selected, loaded_promise, tasks, frames, calls,
          item, gfx, layer_name, item_layers, prims, ppc,
          activity, buttons, activities, bar_style, bar_pc, bar_last>>

----------------------------------------------------------------------------
(* Bounds *)

\* most frame callbacks pending at once
MaxFrames == 2
\* most deferred repaint tasks pending at once
MaxTasks == 2

----------------------------------------------------------------------------
(* Values *)

\* null / undefined object references
Null == [null |-> TRUE]
\* the undefined value of an optional property
Undefined == "undefined"

\* alpha forced on dimmed layers, 0.25
DimAlpha == 25
\* depth of the first rendered layer and the step between layers, 0.01
DepthStep == 1

BBox(x, y, w, h, context) ==
    [x |-> x, y |-> y, w |-> w, h |-> h, context |-> context]

\* BBox.copy(): a new box with the same fields and the same context
copy(bb) == BBox(bb.x, bb.y, bb.w, bb.h, bb.context)

\* BBox.contains_point
contains_point(bb, p) ==
    /\ p[1] >= bb.x /\ p[1] <= bb.x + bb.w
    /\ p[2] >= bb.y /\ p[2] <= bb.y + bb.h

\* bb.copy().grow(bb.w * 0.1), in tenths of a world unit
grow_selected(bb) ==
    BBox(10 * bb.x - bb.w, 10 * bb.y - bb.w,
         10 * bb.w + 2 * bb.w, 10 * bb.h + 2 * bb.w, bb.context)

\* the margin zoom_to_selection grows the selection by
SelectionMargin == 10

\* BBox.grow(d): a new box, d larger on every side, with the same context
grow(bb, d) == BBox(bb.x - d, bb.y - d, bb.w + 2 * d, bb.h + 2 * d, bb.context)

\* the two items of the loaded document and their painted boxes
NotesBBox == BBox(0, 0, 1, 1, "R1")
WireBBox == BBox(1, 1, 1, 1, "W1")
ItemBBoxes == {NotesBBox, WireBBox}

Layer(name, opacity, graphics, bboxes) ==
    [name |-> name, visible |-> TRUE, opacity |-> opacity,
     highlighted |-> FALSE, graphics |-> graphics, bboxes |-> bboxes]

\* the layer set a successful load establishes, in display order (back to
\* front), the overlay last; the overlay has no graphics until a repaint
Document ==
    << Layer(":Notes", 100, [compiled |-> ":Notes"], <<NotesBBox>>),
       Layer(":Wire", 50, [compiled |-> ":Wire"], <<WireBBox>>),
       Layer(":Overlay", 100, Null, <<>>) >>

OverlayIndex == Len(Document)

\* ViewLayerSet.in_display_order()
in_display_order(ls) == ls

\* ViewLayerSet.overlay
overlay(ls) == ls[OverlayIndex]

\* ViewLayerSet.is_any_layer_highlighted(): a non-overlay layer is highlighted
is_any_layer_highlighted(ls) ==
    \E i \in 1..Len(ls) : i # OverlayIndex /\ ls[i].highlighted

RECURSIVE Concat(_)
Concat(ss) == IF ss = <<>> THEN <<>> ELSE Head(ss) \o Concat(Tail(ss))

Reverse(s) == [i \in 1..Len(s) |-> s[Len(s) + 1 - i]]

\* ViewLayerSet.query_point(p): the boxes that contain p, topmost layer
\* first and, within a layer, the most recently painted item first
query_point(ls, p) ==
    Concat([i \in 1..Len(ls) |->
        LET l == Reverse(ls)[i]
            Hit(bb) == contains_point(bb, p)
            bbs == SelectSeq(Reverse(l.bboxes), Hit)
        IN  [j \in 1..Len(bbs) |-> [bbox |-> bbs[j]]]])

\* Camera.screen_to_world
screen_to_world(cam, s) == <<s[1] * cam, s[2] * cam>>

\* the width of the canvas in screen units
CanvasSize == 20

\* the setter of Camera.bbox: the least zoom (world units per screen unit)
\* at which the whole box is on the canvas
fit(bb) == (bb.w + CanvasSize - 1) \div CanvasSize

\* the canvas positions mouse events report
ScreenPoints == {<<0, 0>>, <<1, 0>>, <<0, 1>>, <<1, 1>>}
Zooms == {1, 2}

----------------------------------------------------------------------------
(* Viewer *)

\* a promise that the last resolve or reject settles
settle_last(promise, outcome) == outcome

\* Promise: the first resolve or reject settles it, later ones are ignored
settle(promise, outcome) == IF promise = "pending" THEN outcome ELSE promise

\* later(callback): the callback is queued as a task that runs after the
\* current call has returned
later(queued) == queued + 1

\* draw without the viewport test
draw_frames_unguarded == frames + 1

\* Viewer.draw: nothing without a viewport, else one more frame callback
draw_frames == IF viewport THEN frames + 1 ELSE frames

draw_calls ==
    <<[op |-> "draw"]>> \o
    (IF viewport THEN <<[op |-> "requestAnimationFrame"]>> ELSE <<>>)

\* the loop of on_draw with the depth step taken for skipped layers too
RECURSIVE render_layers_stepping(_, _, _)
render_layers_stepping(ls, depth, should_dim) ==
    IF ls = <<>> THEN <<>>
    ELSE LET layer == Head(ls)
             alpha == IF should_dim /\ ~layer.highlighted
                      THEN DimAlpha ELSE layer.opacity
         IN  (IF layer.visible /\ layer.graphics # Null
              THEN <<[op |-> "render", layer |-> layer.name, depth |-> depth,
                      alpha |-> alpha, released |-> disposed]>>
              ELSE <<>>)
             \o render_layers_stepping(Tail(ls), depth + DepthStep, should_dim)

\* the loop of Viewer.on_draw over the layers in display order
RECURSIVE render_layers(_, _, _)
render_layers(ls, depth, should_dim) ==
    IF ls = <<>> THEN <<>>
    ELSE LET layer == Head(ls)
             alpha == IF should_dim /\ ~layer.highlighted
                      THEN DimAlpha ELSE layer.opacity
         IN  IF layer.visible /\ layer.graphics # Null
             THEN <<[op |-> "render", layer |-> layer.name, depth |-> depth,
                     alpha |-> alpha, released |-> disposed]>>
                  \o render_layers(Tail(ls), depth + DepthStep, should_dim)
             ELSE render_layers(Tail(ls), depth, should_dim)

\* Viewer.on_draw: the calls of one execution in the current state
on_draw ==
    <<[op |-> "on_draw"], [op |-> "clear_canvas", released |-> disposed]>> \o
    (IF layers = <<>> THEN <<>>
     ELSE render_layers(in_display_order(layers), DepthStep,
                        is_any_layer_highlighted(layers)))

\* the constructor: the state of a new Viewer
ViewerInit ==
    /\ viewport = FALSE
    /\ listening = FALSE
    /\ disposed = FALSE
    /\ camera = 1
    /\ mouse_position = <<0, 0>>
    /\ layers = <<>>
    /\ selected = Null
    /\ loaded_promise = "pending"
    /\ tasks = 0
    /\ frames = 0
    /\ calls = <<>>

\* Viewer.setup, after the awaited renderer.setup()
setup ==
    /\ ~viewport
    /\ viewport' = TRUE
    /\ listening' = TRUE
    /\ calls' = <<[op |-> "setup"]>>
    /\ UNCHANGED <<disposed, camera, mouse_position, layers, selected,
                   loaded_promise, tasks, frames>>

\* Viewer.dispose: Disposables.dispose() releases the renderer and the
\* viewport and removes the canvas listeners
dispose ==
    /\ ~disposed
    /\ disposed' = TRUE
    /\ listening' = FALSE
    /\ calls' = <<[op |-> "dispose"]>>
    /\ UNCHANGED <<viewport, camera, mouse_position, layers, selected,
                   loaded_promise, tasks, frames>>

\* Viewer.draw, called by the embedding page
draw ==
    /\ frames < MaxFrames
    /\ frames' = draw_frames
    /\ calls' = draw_calls
    /\ UNCHANGED <<viewport, listening, disposed, camera, mouse_position,
                   layers, selected, loaded_promise, tasks>>

\* the viewport's change callback: Viewer.on_viewport_change
on_viewport_change(zoom) ==
    /\ listening
    /\ zoom # camera
    /\ frames < MaxFrames
    /\ camera' = zoom
    /\ frames' = draw_frames
    /\ calls' = <<[op |-> "on_viewport_change"]>> \o draw_calls
    /\ UNCHANGED <<viewport, listening, disposed, mouse_position, layers,
                   selected, loaded_promise, tasks>>

\* the browser runs an animation frame: every pending callback runs on_draw
animation_frame ==
    /\ frames > 0
    /\ frames' = 0
    /\ calls' = Concat([i \in 1..frames |-> on_draw])
    /\ UNCHANGED <<viewport, listening, disposed, camera, mouse_position,
                   layers, selected, loaded_promise, tasks>>

\* on_mouse_change without the comparison: every event is announced
on_mouse_change_always(type, e) ==
    LET new_position == screen_to_world(camera, e)
    IN  /\ listening
        /\ mouse_position' = new_position
        /\ calls' = <<[op |-> "on_mouse_change", screen |-> e],
                      [op |-> "dispatchEvent", type |-> "kicanvas:mousemove",
                       position |-> new_position]>>
        /\ UNCHANGED <<viewport, listening, disposed, camera, layers, selected,
                       loaded_promise, tasks, frames>>

\* Viewer.on_mouse_change, for the "mousemove" and "panzoom" listeners
on_mouse_change(type, e) ==
    LET new_position == screen_to_world(camera, e)
        enter == <<[op |-> "on_mouse_change", screen |-> e]>>
    IN  /\ listening
        /\ IF \/ mouse_position[1] # new_position[1]
              \/ mouse_position[2] # new_position[2]
           THEN /\ mouse_position' = new_position
                /\ calls' = enter \o
                       <<[op |-> "dispatchEvent", type |-> "kicanvas:mousemove",
                          position |-> new_position]>>
           ELSE /\ mouse_position' = mouse_position
                /\ calls' = enter
        /\ UNCHANGED <<viewport, listening, disposed, camera, layers, selected,
                       loaded_promise, tasks, frames>>

\* set_loaded that also announces a failed load
set_loaded_announce_failure(value, pre) ==
    IF value
    THEN /\ loaded_promise' = settle(loaded_promise, "resolved_true")
         /\ calls' = pre \o <<[op |-> "set_loaded", value |-> TRUE],
                              [op |-> "resolve", value |-> TRUE],
                              [op |-> "dispatchEvent", type |-> "kicanvas:load"]>>
    ELSE /\ loaded_promise' = settle(loaded_promise, "rejected")
         /\ calls' = pre \o <<[op |-> "set_loaded", value |-> FALSE],
                              [op |-> "reject", value |-> FALSE],
                              [op |-> "dispatchEvent", type |-> "kicanvas:load"]>>

\* Viewer.set_loaded
set_loaded(value, pre) ==
    IF value
    THEN /\ loaded_promise' = settle(loaded_promise, "resolved_true")
         /\ calls' = pre \o <<[op |-> "set_loaded", value |-> TRUE],
                              [op |-> "resolve", value |-> TRUE],
                              [op |-> "dispatchEvent", type |-> "kicanvas:load"]>>
    ELSE /\ loaded_promise' = settle(loaded_promise, "rejected")
         /\ calls' = pre \o <<[op |-> "set_loaded", value |-> FALSE],
                              [op |-> "reject", value |-> FALSE]>>

\* a concrete viewer's load(src): it establishes the layers of the document
\* and reports the outcome through set_loaded
load(ok) ==
    /\ viewport
    /\ layers' = IF ok THEN Document ELSE layers
    /\ set_loaded(ok, <<[op |-> "load"]>>)
    /\ UNCHANGED <<viewport, listening, disposed, camera, mouse_position,
                   selected, tasks, frames>>

\* a setter that repaints the overlay inside the call
set_selected_sync(bb, pre) ==
    LET previous == selected
        next == IF bb # Null THEN copy(bb) ELSE Null
    IN  /\ selected' = next
        /\ tasks' = later(tasks)
        /\ calls' = pre \o
              <<[op |-> "set selected"],
                [op |-> "dispatchEvent", type |-> "kicanvas:select",
                 item |-> IF next # Null THEN next.context ELSE Undefined,
                 previous |-> IF previous # Null THEN previous.context
                              ELSE Undefined],
                [op |-> "paint_selected"]>>
        /\ UNCHANGED <<viewport, listening, disposed, camera, mouse_position,
                       layers, loaded_promise, frames>>

\* the setter of Viewer.selected
set_selected(bb, pre) ==
    LET previous == selected
        next == IF bb # Null THEN copy(bb) ELSE Null
    IN  /\ selected' = next
        /\ tasks' = later(tasks)
        /\ calls' = pre \o
              <<[op |-> "set selected"],
                [op |-> "dispatchEvent", type |-> "kicanvas:select",
                 item |-> IF next # Null THEN next.context ELSE Undefined,
                 previous |-> IF previous # Null THEN previous.context
                              ELSE Undefined],
                [op |-> "later", task |-> "paint_selected"]>>
        /\ UNCHANGED <<viewport, listening, disposed, camera, mouse_position,
                       layers, loaded_promise, frames>>

\* Viewer.select, called by the embedding page
select(bb) ==
    /\ tasks < MaxTasks
    /\ set_selected(bb, <<[op |-> "select"]>>)

\* on_pick without the break: the last candidate wins
on_pick_last(mouse, items, pre) ==
    LET picked == IF items = <<>> THEN Null ELSE items[Len(items)].bbox
    IN  set_selected(picked, pre \o <<[op |-> "on_pick", items |-> items]>>)

\* Viewer.on_pick
on_pick(mouse, items, pre) ==
    LET picked == IF items = <<>> THEN Null ELSE items[1].bbox
    IN  set_selected(picked, pre \o <<[op |-> "on_pick", items |-> items]>>)

\* the "click" listener of setup
click ==
    /\ listening
    /\ tasks < MaxTasks
    /\ IF layers = <<>>
       THEN /\ calls' = <<[op |-> "click"],
                          [op |-> "throw", error |-> "TypeError"]>>
            /\ UNCHANGED <<viewport, listening, disposed, camera,
                           mouse_position, layers, selected, loaded_promise,
                           tasks, frames>>
       ELSE on_pick(mouse_position, query_point(layers, mouse_position),
                    <<[op |-> "click"],
                      [op |-> "query_point", at |-> mouse_position]>>)

\* ViewLayer.clear(): the layer drops its compiled graphics
layer_clear(layer) == [layer EXCEPT !.graphics = Null]

\* paint_selected that forgets to clear the overlay first
paint_selected_layer_unclear(layer, sel) ==
    IF sel # Null
    THEN [layer EXCEPT !.graphics =
              [compiled |-> ":Overlay", outline |-> grow_selected(sel),
               composite_operation |-> "overlay"]]
    ELSE layer

\* paint_selected that keeps an outline the overlay already shows
paint_selected_layer_stale(layer, sel) ==
    IF layer.graphics # Null THEN layer
    ELSE IF sel # Null
    THEN [layer EXCEPT !.graphics =
              [compiled |-> ":Overlay", outline |-> grow_selected(sel),
               composite_operation |-> "overlay"]]
    ELSE layer

\* the overlay layer after Viewer.paint_selected: cleared, then given the
\* outline of the selection if there is one
paint_selected_layer(layer, sel) ==
    LET cleared == layer_clear(layer)
    IN  IF sel # Null
        THEN [cleared EXCEPT !.graphics =
                  [compiled |-> ":Overlay", outline |-> grow_selected(sel),
                   composite_operation |-> "overlay"]]
        ELSE cleared

\* Viewer.paint_selected, run as a task queued by later()
paint_selected ==
    /\ tasks > 0
    /\ frames < MaxFrames
    /\ tasks' = tasks - 1
    /\ IF layers = <<>>
       THEN /\ calls' = <<[op |-> "paint_selected"],
                          [op |-> "throw", error |-> "TypeError"]>>
            /\ UNCHANGED <<layers, frames>>
       ELSE /\ layers' = [layers EXCEPT ![OverlayIndex] =
                              paint_selected_layer(overlay(layers), selected)]
            /\ frames' = draw_frames
            /\ calls' = <<[op |-> "paint_selected"], [op |-> "layer.clear"]>>
                  \o (IF selected # Null
                      THEN <<[op |-> "start_layer"], [op |-> "line"],
                             [op |-> "polygon"], [op |-> "end_layer"]>>
                      ELSE <<>>)
                  \o draw_calls
    /\ UNCHANGED <<viewport, listening, disposed, camera, mouse_position,
                   selected, loaded_promise>>

\* the box zoom_to_selection fits, without the margin
zoom_box_tight(sel) == sel

\* this.selected.grow(10): the box zoom_to_selection fits the camera to
zoom_box(sel) == grow(sel, SelectionMargin)

\* Viewer.zoom_to_selection, called by the embedding page
zoom_to_selection ==
    /\ frames < MaxFrames
    /\ IF selected = Null
       THEN /\ calls' = <<[op |-> "zoom_to_selection"]>>
            /\ UNCHANGED <<camera, frames>>
       ELSE IF ~viewport
       THEN /\ calls' = <<[op |-> "zoom_to_selection"],
                          [op |-> "throw", error |-> "TypeError"]>>
            /\ UNCHANGED <<camera, frames>>
       ELSE /\ camera' = fit(zoom_box(selected))
            /\ frames' = draw_frames
            /\ calls' = <<[op |-> "zoom_to_selection"],
                          [op |-> "set camera.bbox",
                           bbox |-> zoom_box(selected)]>>
                  \o draw_calls
    /\ UNCHANGED <<viewport, listening, disposed, mouse_position, layers,
                   selected, loaded_promise, tasks>>

\* the layer controls of the embedding page: Layer.visible
set_layer_visible(i, v) ==
    /\ layers # <<>>
    /\ layers[i].visible # v
    /\ layers' = [layers EXCEPT ![i].visible = v]
    /\ calls' = <<>>
    /\ UNCHANGED <<viewport, listening, disposed, camera, mouse_position,
                   selected, loaded_promise, tasks, frames>>

\* the layer controls of the embedding page: Layer.highlighted
set_layer_highlighted(i, h) ==
    /\ layers # <<>>
    /\ layers[i].highlighted # h
    /\ layers' = [layers EXCEPT ![i].highlighted = h]
    /\ calls' = <<>>
    /\ UNCHANGED <<viewport, listening, disposed, camera, mouse_position,
                   selected, loaded_promise, tasks, frames>>

----------------------------------------------------------------------------
(* Painter *)

\* new Color(1, 0, 0, 1), the default fail_color of color_maybe
ErrorColor == "red"
Transparent == "transparent"

\* Color.is_transparent
is_transparent(color) == color = Transparent

\* color_maybe(color, fallback_color, fail_color = new Color(1, 0, 0, 1)):
\* an undefined third argument takes the default
color_maybe(color, fallback_color, fail_arg) ==
    LET fail_color == IF fail_arg = Undefined THEN ErrorColor ELSE fail_arg
    IN  IF ~is_transparent(color) THEN color
        ELSE IF fallback_color # Undefined THEN fallback_color
        ELSE fail_color

\* a || b on numbers: b when a is 0
or_else(a, b) == IF a # 0 THEN a ELSE b

\* a ?? b: b when a is undefined
nullish(a, b) == IF a # Undefined THEN a ELSE b

Line(width, color) == [kind |-> "line", width |-> width, color |-> color]
Polygon(color) == [kind |-> "polygon", color |-> color]
ArcPrim(width, color) == [kind |-> "arc", width |-> width, color |-> color]
CirclePrim(color) == [kind |-> "circle", color |-> color]

\* ItemPainter.layers, the default of the base class
ItemPainter_layers(it) == <<":Overlay">>

RectanglePainter_layers(it) == <<":Notes">>

RectanglePainter_paint(g, r) ==
    LET color == color_maybe(r.stroke.color, g.state.stroke, g.theme.note)
    IN  (IF r.fill # "none" THEN <<Polygon(g.state.fill)>> ELSE <<>>)
        \o <<Line(or_else(r.stroke.width, g.state.stroke_width), color)>>

PolylinePainter_layers(it) == <<":Notes">>

PolylinePainter_paint(g, pl) ==
    LET color == color_maybe(pl.stroke.color, g.state.stroke, g.theme.note)
    IN  <<Line(or_else(pl.stroke.width, g.state.stroke_width), color)>>
        \o (IF pl.fill # "none" THEN <<Polygon(color)>> ELSE <<>>)

WirePainter_layers(it) == <<":Wire">>

WirePainter_paint(g, w) == <<Line(g.state.stroke_width, g.theme.wire)>>

CirclePainter_layers(it) == <<":Notes">>

CirclePainter_paint(g, c) ==
    LET color == nullish(g.state.stroke, g.theme.note)
    IN  <<ArcPrim(or_else(c.stroke.width, g.state.stroke_width), color)>>
        \o (IF c.fill # "none" THEN <<CirclePrim(color)>> ELSE <<>>)

ArcPainter_layers(it) == <<":Notes">>

ArcPainter_paint(g, a) ==
    LET color == nullish(g.state.stroke, g.theme.note)
    IN  <<ArcPrim(or_else(a.stroke.width, g.state.stroke_width), color)>>

JunctionPainter_layers(it) == <<":Junction">>

JunctionPainter_paint(g, j) == <<CirclePrim(g.theme.junction)>>

----------------------------------------------------------------------------
(* Painter: text, labels, pins and symbols *)

\* Lengths of text and labels are in ten-thousandths of a world unit, and a
\* ratio r stands for r / 10000.
Scaled(x, ratio) == (x * ratio) \div 10000

\* LabelPainter.default_thickness, 0.1524
default_thickness == 1524
\* LabelPainter.text_offset_ratio, 0.15
text_offset_ratio == 1500
\* LabelPainter.label_size_ratio, 0.375
label_size_ratio == 3750
\* GlobalLabelPainter.baseline_offset_ratio, 0.0715
baseline_offset_ratio == 715
\* GlobalLabelPainter.triangle_offset_ratio, 0.75
triangle_offset_ratio == 7500
\* the 0.03 added to both half-extents of a global label's shape
shape_clearance == 300
\* the stroke width of field text, 0.127
field_thickness == 1270

\* TextOptions.get_effective_thickness: the text's own thickness if it has
\* one, else the default
get_effective_thickness(thickness, default) ==
    IF thickness # 0 THEN thickness ELSE default

\* Angle.normalize(), in degrees: into [0, 360)
normalize(degrees) == degrees % 360

\* the angle that keeps the text at 180 where 270 is laid out as 270
text_angle_keep_270(degrees) == IF degrees = 180 THEN 0 ELSE degrees

\* the angle text is laid out at: 180 becomes 0 and 270 becomes 90
text_angle(degrees) ==
    IF degrees = 180 THEN 0 ELSE IF degrees = 270 THEN 90 ELSE degrees

\* Vec2.rotate by a multiple of 90 degrees
rotate(v, degrees) ==
    LET r == normalize(degrees)
    IN  CASE r = 0 -> v
          [] r = 90 -> <<-v[2], v[1]>>
          [] r = 180 -> <<-v[1], -v[2]>>
          [] r = 270 -> <<v[2], -v[1]>>

\* gfx.state.push(): the current state is saved on the stack
push(g) == [g EXCEPT !.stack = Append(@, g.state)]

\* gfx.state.pop(): the state saved last becomes the current one again
pop(g) ==
    [g EXCEPT !.state = g.stack[Len(g.stack)],
              !.stack = SubSeq(g.stack, 1, Len(g.stack) - 1)]

\* gfx.state.multiply(m), matrix.translate_self, matrix.rotate_self: the
\* transform is applied on top of the current matrix
multiply(g, m) == [g EXCEPT !.state.matrix = Append(@, m)]

\* what a paint call leaves: the renderer and the primitives it emitted
Result(g, ps) == [gfx |-> g, prims |-> ps]

\* the polylines of a shaped paragraph, each passed to gfx.line
TextPrim(text, at, rotation, color) ==
    [kind |-> "text", text |-> text, at |-> at, rotation |-> rotation,
     color |-> color]

\* a polyline with its points, drawn under the renderer's current matrix
Shape(points, width, color, matrix) ==
    [kind |-> "line", points |-> points, width |-> width, color |-> color,
     matrix |-> matrix]

\* gfx.text_shaper.paragraph: the text laid out at a position and an angle;
\* its box is three glyphs of the text size long, along the text
paragraph(text, at, rotation, effects) ==
    [text |-> text, at |-> at, rotation |-> rotation,
     options |-> [size |-> effects.size, thickness |-> effects.thickness],
     bbox |-> IF rotation = 90
              THEN [w |-> effects.size.y, h |-> 3 * effects.size.x]
              ELSE [w |-> 3 * effects.size.x, h |-> effects.size.y]]

TextPainter_layers(it) ==
    IF it.parent THEN <<":Symbol:Foreground">> ELSE <<":Notes">>

TextPainter_paint(g, t) ==
    IF t.effects.hide THEN <<>>
    ELSE LET rotation == text_angle(normalize(t.at.rotation))
             pos == <<t.at.position[1],
                      t.at.position[2]
                        - (Scaled(t.effects.size.y, 1500)
                           + get_effective_thickness(t.effects.thickness, 1524))>>
             shaped == paragraph(t.text, pos, rotation, t.effects)
         IN  <<TextPrim(shaped.text, shaped.at, shaped.rotation, g.state.stroke)>>

LabelPainter_layers(it) == <<":Label">>

LabelPainter_color(g) == g.theme.label_local

LabelPainter_get_text_baseline_offset_dist(l) ==
    Scaled(l.effects.size.y, text_offset_ratio)
        + get_effective_thickness(l.effects.thickness, default_thickness)

LabelPainter_get_text_offset(l) ==
    LET offset_dist == LabelPainter_get_text_baseline_offset_dist(l)
    IN  IF l.at.rotation = 0 \/ l.at.rotation = 180
        THEN <<0, -offset_dist>>
        ELSE <<-offset_dist, 0>>

\* LabelPainter.paint_shape: a local label has no shape
LabelPainter_paint_shape(g, l, shaped) == Result(g, <<>>)

LabelPainter_paint_debug(g, l, shaped) ==
    <<CirclePrim("debug_red"), Line(1000, "debug_red_faint")>>

GlobalLabelPainter_color(g) == g.theme.label_global

GlobalLabelPainter_get_text_offset(l) ==
    LET horz == Scaled(l.effects.size.y, label_size_ratio)
                  + (IF l.shape \in {"input", "bidirectional", "tri_state"}
                     THEN Scaled(l.effects.size.y, triangle_offset_ratio)
                     ELSE 0)
        vert == Scaled(l.effects.size.y, baseline_offset_ratio)
    IN  rotate(<<horz, vert>>, l.at.rotation)

\* a half size that is the triangle offset of the text
half_size_triangle(size_y) == Scaled(size_y, triangle_offset_ratio)

\* half_size of GlobalLabelPainter.paint_shape: half the text height plus
\* the margin
half_size(size_y) == size_y \div 2 + Scaled(size_y, label_size_ratio)

\* the points of the outline GlobalLabelPainter.paint_shape draws
GlobalLabelPainter_points(l, shaped) ==
    LET margin == Scaled(shaped.options.size.y, label_size_ratio)
        half == half_size(shaped.options.size.y)
        thickness == get_effective_thickness(shaped.options.thickness,
                                             default_thickness)
        length == (IF l.at.rotation = 90 \/ l.at.rotation = 270
                   THEN shaped.bbox.h ELSE shaped.bbox.w)
                  + 2 * margin + half \div 2
        x == length + thickness + shape_clearance
        y == half + thickness + shape_clearance
        line == << <<0, 0>>, <<0, -y>>, <<-x, -y>>, <<-x, 0>>, <<-x, y>>,
                   <<0, y>>, <<0, 0>> >>
        tail == l.shape \in {"input", "bidirectional", "tri_state"}
        head == l.shape \in {"output", "bidirectional", "tri_state"}
        x_offset == IF tail THEN -half ELSE 0
    IN  [i \in 1..7 |->
            <<line[i][1]
                + (IF tail /\ i \in {1, 7} THEN half ELSE 0)
                - (IF head /\ i = 4 THEN half ELSE 0)
                + x_offset,
              line[i][2]>>]

GlobalLabelPainter_paint_shape(g, l, shaped) ==
    LET thickness == get_effective_thickness(shaped.options.thickness,
                                             default_thickness)
        g1 == multiply(multiply(push(g),
                  [translate |-> l.at.position]),
                  [rotate |-> l.at.rotation + 180])
    IN  Result(pop(g1),
               <<Shape(GlobalLabelPainter_points(l, shaped), thickness,
                       GlobalLabelPainter_color(g1), g1.state.matrix)>>)

HierarchicalLabelPainter_color(g) == g.theme.label_hier

HierarchicalLabelPainter_get_text_offset(l) ==
    rotate(<<LabelPainter_get_text_baseline_offset_dist(l) + l.effects.size.x,
             0>>, l.at.rotation)

HierarchicalLabelPainter_paint_shape(g, l, shaped) ==
    LET s == l.effects.size.y
        h == s \div 2
        thickness == get_effective_thickness(shaped.options.thickness,
                                             default_thickness)
        g1 == multiply(multiply(push(g),
                  [translate |-> l.at.position]),
                  [rotate |-> l.at.rotation])
        points ==
            CASE l.shape = "output" ->
                   << <<0, h>>, <<h, h>>, <<s, 0>>, <<h, -h>>, <<0, -h>>,
                      <<0, h>> >>
              [] l.shape = "input" ->
                   << <<s, h>>, <<h, h>>, <<0, 0>>, <<h, -h>>, <<s, -h>>,
                      <<s, h>> >>
              [] l.shape \in {"bidirectional", "tri-state"} ->
                   << <<h, h>>, <<s, 0>>, <<h, -h>>, <<0, 0>>, <<h, h>> >>
              [] OTHER ->
                   << <<0, h>>, <<s, h>>, <<s, -h>>, <<0, -h>>, <<0, h>> >>
    IN  Result(pop(g1),
               <<Shape(points, thickness, HierarchicalLabelPainter_color(g1),
                       g1.state.matrix)>>)

\* LabelPainter.paint, inherited by the global and the hierarchical label
\* painter: color, get_text_offset and paint_shape are those of the class
\* the item is registered for
LabelPainter_paint(g, l) ==
    IF l.effects.hide THEN Result(g, <<>>)
    ELSE LET color ==
                 CASE l.class = "GlobalLabel" -> GlobalLabelPainter_color(g)
                   [] l.class = "HierarchicalLabel" ->
                        HierarchicalLabelPainter_color(g)
                   [] OTHER -> LabelPainter_color(g)
             rotation == text_angle(normalize(l.at.rotation))
             pos_offset ==
                 CASE l.class = "GlobalLabel" ->
                        GlobalLabelPainter_get_text_offset(l)
                   [] l.class = "HierarchicalLabel" ->
                        HierarchicalLabelPainter_get_text_offset(l)
                   [] OTHER -> LabelPainter_get_text_offset(l)
             pos == <<l.at.position[1] + pos_offset[1],
                      l.at.position[2] + pos_offset[2]>>
             shaped == paragraph(l.name, pos, rotation, l.effects)
             shape ==
                 CASE l.class = "GlobalLabel" ->
                        GlobalLabelPainter_paint_shape(g, l, shaped)
                   [] l.class = "HierarchicalLabel" ->
                        HierarchicalLabelPainter_paint_shape(g, l, shaped)
                   [] OTHER -> LabelPainter_paint_shape(g, l, shaped)
         IN  Result(shape.gfx,
                    <<TextPrim(shaped.text, shaped.at, shaped.rotation, color)>>
                    \o shape.prims
                    \o LabelPainter_paint_debug(shape.gfx, l, shaped))

PinPainter_layers(it) == <<":Symbol:Pin">>

PinPainter_paint(g, p) ==
    IF p.hide THEN Result(g, <<>>)
    ELSE LET matrix == [translate |-> p.at.position,
                        rotate |-> -p.at.rotation]
             g1 == multiply(push(g), matrix)
         IN  Result(pop(g1),
                    <<ArcPrim(g1.state.stroke_width, g1.theme.pin),
                      Line(g1.state.stroke_width, g1.theme.pin)>>)

PropertyPainter_layers(it) == <<"Symbol:Field">>

\* the strokes of a field's value, each passed to gfx.line
FieldText(text, rotation, width, color) ==
    [kind |-> "text", text |-> text, rotation |-> rotation, width |-> width,
     color |-> color]

PropertyPainter_paint(g, p) ==
    IF p.effects.hide \/ p.value = "" THEN <<>>
    ELSE LET color == CASE p.key = "Reference" -> g.theme.reference
                        [] p.key = "Value" -> g.theme.value
                        [] OTHER -> g.theme.fields
             orient == normalize(p.parent.at.rotation + p.at.rotation)
         IN  <<FieldText(p.value, text_angle(orient), field_thickness, color)>>

LibrarySymbolPainter_layers(it) ==
    <<":Symbol:Foreground", ":Symbol:Background", ":Symbol:Field",
      ":Symbol:Pin">>

RECURSIVE paint_item(_, _, _)

\* the loop of LibrarySymbolPainter.paint over s.graphics
RECURSIVE LibrarySymbolPainter_graphics(_, _, _)
LibrarySymbolPainter_graphics(g, layer, graphics) ==
    IF graphics = <<>> THEN Result(g, <<>>)
    ELSE LET gr == Head(graphics)
             outline_color == g.theme.component_outline
             fill_color == g.theme.component_body
             fill == IF layer = ":Symbol:Background" /\ gr.fill = "background"
                     THEN fill_color
                     ELSE IF layer = ":Symbol:Foreground" /\ gr.fill = "outline"
                     THEN outline_color
                     ELSE Transparent
             g1 == [g EXCEPT !.state.fill = fill,
                             !.state.stroke = outline_color]
             first == paint_item(g1, layer, gr)
             rest == LibrarySymbolPainter_graphics(first.gfx, layer,
                                                   Tail(graphics))
         IN  Result(rest.gfx, first.prims \o rest.prims)

\* the loop of LibrarySymbolPainter.paint over s.pins
RECURSIVE LibrarySymbolPainter_pins(_, _)
LibrarySymbolPainter_pins(g, pins) ==
    IF pins = <<>> THEN Result(g, <<>>)
    ELSE LET first == PinPainter_paint(g, Head(pins))
             rest == LibrarySymbolPainter_pins(first.gfx, Tail(pins))
         IN  Result(rest.gfx, first.prims \o rest.prims)

RECURSIVE LibrarySymbolPainter_paint(_, _, _)

\* the loop of LibrarySymbolPainter.paint over s.children
RECURSIVE LibrarySymbolPainter_children(_, _, _)
LibrarySymbolPainter_children(g, layer, children) ==
    IF children = <<>> THEN Result(g, <<>>)
    ELSE LET first == LibrarySymbolPainter_paint(g, layer, Head(children))
             rest == LibrarySymbolPainter_children(first.gfx, layer,
                                                   Tail(children))
         IN  Result(rest.gfx, first.prims \o rest.prims)

LibrarySymbolPainter_paint(g, layer, s) ==
    LET children == LibrarySymbolPainter_children(g, layer, s.children)
        graphics ==
            IF layer = ":Symbol:Background" \/ layer = ":Symbol:Foreground"
            THEN LibrarySymbolPainter_graphics(children.gfx, layer, s.graphics)
            ELSE Result(children.gfx, <<>>)
        pins ==
            IF layer = ":Symbol:Pin"
            THEN LibrarySymbolPainter_pins(graphics.gfx, s.pins)
            ELSE Result(graphics.gfx, <<>>)
    IN  Result(pins.gfx, children.prims \o graphics.prims \o pins.prims)

SymbolInstancePainter_layers(it) ==
    <<":Symbol:Foreground", ":Symbol:Background", ":Symbol:Field",
      ":Symbol:Pin">>

SymbolInstancePainter_paint(g, layer, si) ==
    LET matrix == [translate |-> si.at.position,
                   scale |-> <<IF si.mirror = "y" THEN -1 ELSE 1,
                               IF si.mirror = "x" THEN 1 ELSE -1>>,
                   rotate |-> -si.at.rotation]
        lib == LibrarySymbolPainter_paint(multiply(push(g), matrix), layer,
                                          si.lib_symbol)
        g1 == pop(lib.gfx)
        fields ==
            IF layer = ":Symbol:Field"
            THEN Concat([i \in DOMAIN si.properties |->
                            PropertyPainter_paint(g1, si.properties[i])])
            ELSE <<>>
    IN  Result(g1, lib.prims \o fields)

----------------------------------------------------------------------------
(* Painter: dispatch *)

\* the classes of the painters that draw one shape
ShapeClasses == {"Rectangle", "Polyline", "Wire", "Circle", "Arc", "Junction"}

\* the item classes of the painters list
PainterClasses ==
    ShapeClasses \cup
    {"Text", "PinDefinition", "LibrarySymbol", "Property", "SymbolInstance",
     "Label", "GlobalLabel", "HierarchicalLabel"}

\* painter_for_class.get(item.constructor): the painter registered for the
\* class, or undefined
painter_for_class(class) ==
    IF class \in PainterClasses THEN class ELSE Undefined

\* painter.layers(item) of a registered painter
painter_layers(painter, it) ==
    CASE painter = "Rectangle" -> RectanglePainter_layers(it)
      [] painter = "Polyline" -> PolylinePainter_layers(it)
      [] painter = "Wire" -> WirePainter_layers(it)
      [] painter = "Circle" -> CirclePainter_layers(it)
      [] painter = "Arc" -> ArcPainter_layers(it)
      [] painter = "Junction" -> JunctionPainter_layers(it)
      [] painter = "Text" -> TextPainter_layers(it)
      [] painter = "PinDefinition" -> PinPainter_layers(it)
      [] painter = "LibrarySymbol" -> LibrarySymbolPainter_layers(it)
      [] painter = "Property" -> PropertyPainter_layers(it)
      [] painter = "SymbolInstance" -> SymbolInstancePainter_layers(it)
      [] painter \in {"Label", "GlobalLabel", "HierarchicalLabel"} ->
           LabelPainter_layers(it)

\* layers_for that falls back to the base ItemPainter for an unknown class
layers_for_base(it) ==
    LET painter == painter_for_class(it.class)
    IN  IF painter # Undefined
        THEN painter_layers(painter, it)
        ELSE ItemPainter_layers(it)

\* Painter.layers_for
layers_for(it) ==
    LET painter == painter_for_class(it.class)
    IN  IF painter # Undefined
        THEN painter_layers(painter, it)
        ELSE <<>>

\* Painter.paint_item: the renderer and the primitives the item's painter
\* leaves
paint_item(g, layer, it) ==
    LET painter == painter_for_class(it.class)
    IN  IF painter # Undefined
        THEN CASE painter = "Rectangle" -> Result(g, RectanglePainter_paint(g, it))
               [] painter = "Polyline" -> Result(g, PolylinePainter_paint(g, it))
               [] painter = "Wire" -> Result(g, WirePainter_paint(g, it))
               [] painter = "Circle" -> Result(g, CirclePainter_paint(g, it))
               [] painter = "Arc" -> Result(g, ArcPainter_paint(g, it))
               [] painter = "Junction" -> Result(g, JunctionPainter_paint(g, it))
               [] painter = "Text" -> Result(g, TextPainter_paint(g, it))
               [] painter = "PinDefinition" -> PinPainter_paint(g, it)
               [] painter = "LibrarySymbol" ->
                    LibrarySymbolPainter_paint(g, layer, it)
               [] painter = "Property" -> Result(g, PropertyPainter_paint(g, it))
               [] painter = "SymbolInstance" ->
                    SymbolInstancePainter_paint(g, layer, it)
               [] painter \in {"Label", "GlobalLabel", "HierarchicalLabel"} ->
                    LabelPainter_paint(g, it)
        ELSE Result(g, <<>>)

\* the item classes handed to the painter; NoConnect and BusEntry are
\* schematic items without a registered painter
ItemClasses == ShapeClasses \cup {"NoConnect", "BusEntry"}

Items ==
    [class : ItemClasses,
     stroke : [color : {Transparent, "blue"}, width : {0, 2}],
     fill : {"none", "background"}]

\* the rotations of the painted items, in degrees
Rotations == {-90, 0, 90, 180, 270, 360, 450}

\* the text sizes of the painted items, 1.6 and 3.2
Sizes == {[x |-> 16000, y |-> 16000], [x |-> 32000, y |-> 32000]}

Texts ==
    [class : {"Text"}, text : {"note"}, parent : BOOLEAN,
     at : [position : {<<0, 0>>}, rotation : Rotations],
     effects : [hide : BOOLEAN, size : {[x |-> 16000, y |-> 16000]},
                thickness : {0}]]

Labels ==
    [class : {"Label", "GlobalLabel", "HierarchicalLabel"}, name : {"NET"},
     shape : {"input", "output", "bidirectional", "tri_state", "passive"},
     at : [position : {<<0, 0>>}, rotation : Rotations],
     effects : [hide : BOOLEAN, size : Sizes, thickness : {0, 2000}]]

Pins ==
    [class : {"PinDefinition"}, hide : BOOLEAN, length : {25400},
     at : [position : {<<0, 0>>}, rotation : {0}]]

\* the graphics of a library symbol
Graphics ==
    [class : {"Rectangle", "Polyline", "Circle", "Arc"},
     stroke : [color : {Transparent, "blue"}, width : {0}],
     fill : {"none", "background", "outline"}]

\* a unit of a library symbol: a body rectangle and a pin
Unit ==
    [class |-> "LibrarySymbol", children |-> <<>>,
     graphics |-> <<[class |-> "Rectangle",
                     stroke |-> [color |-> Transparent, width |-> 0],
                     fill |-> "background"]>>,
     pins |-> <<[class |-> "PinDefinition", hide |-> FALSE, length |-> 25400,
                 at |-> [position |-> <<0, 0>>, rotation |-> 0]]>>]

LibrarySymbols ==
    [class : {"LibrarySymbol"}, children : {<<>>, <<Unit>>},
     graphics : {<<>>} \cup {<<gr>> : gr \in Graphics},
     pins : {<<>>} \cup {<<pin>> : pin \in Pins}]

Properties ==
    [class : {"Property"}, key : {"Reference", "Value", "Footprint"},
     value : {"", "R1"},
     at : [position : {<<0, 0>>}, rotation : {0, 90, 180, 270}],
     effects : [hide : BOOLEAN, size : {[x |-> 16000, y |-> 16000]},
                thickness : {0}],
     parent : [at : [position : {<<0, 0>>}, rotation : {0, 90, 180, 270}]]]

\* the reference field of a symbol instance that is not rotated
Reference ==
    [class |-> "Property", key |-> "Reference", value |-> "R1",
     at |-> [position |-> <<0, 0>>, rotation |-> 0],
     effects |-> [hide |-> FALSE, size |-> [x |-> 16000, y |-> 16000],
                  thickness |-> 0],
     parent |-> [at |-> [position |-> <<0, 0>>, rotation |-> 0]]]

SymbolInstances ==
    [class : {"SymbolInstance"}, mirror : {"none", "x"},
     at : [position : {<<0, 0>>}, rotation : {0}],
     lib_symbol : LibrarySymbols, properties : {<<>>, <<Reference>>}]

\* renderer states: the current stroke may be unset, and so may the theme's
\* note color; no state is saved on the stack
GfxStates ==
    [state : [stroke : {Undefined, "green"}, fill : {"gray"},
              stroke_width : {1}, matrix : {<<>>}],
     stack : {<<>>},
     theme : [note : {Undefined, "yellow"}, wire : {"wire_green"},
              junction : {"junction_green"}, pin : {"pin_red"},
              component_outline : {"outline_red"},
              component_body : {"body_yellow"}, fields : {"fields_purple"},
              reference : {"reference_cyan"}, value : {"value_cyan"},
              label_local : {"label_black"}, label_global : {"label_red"},
              label_hier : {"label_brown"}]]

PaintedLayers ==
    {":Notes", ":Wire", ":Label", ":Symbol:Foreground", ":Symbol:Background",
     ":Symbol:Field", ":Symbol:Pin"}

\* the painter's state while the viewer runs
PainterIdle ==
    /\ item = Null
    /\ gfx = Null
    /\ layer_name = ""
    /\ item_layers = <<>>
    /\ prims = <<>>
    /\ ppc = "idle"

\* an item of the document, a renderer and a layer to paint
PainterInit ==
    /\ \/ item \in Items
       \/ item \in Texts
       \/ item \in Labels
       \/ item \in Pins
       \/ item \in LibrarySymbols
       \/ item \in Properties
       \/ item \in SymbolInstances
    /\ gfx \in GfxStates
    /\ layer_name \in PaintedLayers
    /\ item_layers = <<>>
    /\ prims = <<>>
    /\ ppc = "ready"

\* the document's items are partitioned into layers by layers_for
assign_layers ==
    /\ ppc = "ready"
    /\ item_layers' = layers_for(item)
    /\ ppc' = "assigned"
    /\ UNCHANGED <<item, gfx, layer_name, prims>>

\* paint_item(layer, item) is called on the item
paint ==
    /\ ppc = "assigned"
    /\ prims' = paint_item(gfx, layer_name, item).prims
    /\ gfx' = paint_item(gfx, layer_name, item).gfx
    /\ ppc' = "painted"
    /\ UNCHANGED <<item, layer_name, item_layers>>

----------------------------------------------------------------------------
(* Activity side bar *)

\* null where a string may stand
JsNull == "null"

\* String.toLowerCase, on the names of the model
toLowerCase(name) ==
    CASE name \in {"Layers", "LAYERS"} -> "layers"
      [] name \in {"Objects", "OBJECTS"} -> "objects"
      [] name = "Info" -> "info"
      [] OTHER -> name

\* name?.toLowerCase(): undefined when name is null or undefined
lower(name) ==
    IF name \in {JsNull, Undefined} THEN Undefined ELSE toLowerCase(name)

\* a == b on strings, null and undefined
loose_equal(a, b) ==
    \/ a = b
    \/ a \in {JsNull, Undefined} /\ b \in {JsNull, Undefined}

\* !a on a string, null or undefined
falsy(a) == a \in {JsNull, Undefined, ""}

\* a kc-ui-activity child element
Activity(name, button_location) ==
    [name |-> name, button_location |-> button_location, active |-> FALSE]

\* the children a side bar is written with
ActivityLists ==
    { <<>>,
      <<Activity("Info", "top")>>,
      <<Activity("Layers", "top"), Activity("Objects", "top")>>,
      <<Activity("Objects", "bottom"), Activity("Layers", "top")>> }

\* render(): one button for each activity, named by its lower-cased name,
\* the top buttons before the bottom ones
render(acts) ==
    LET Bottom(a) == a.button_location = "bottom"
        Top(a) == ~Bottom(a)
        ordered == SelectSeq(acts, Top) \o SelectSeq(acts, Bottom)
    IN  [i \in DOMAIN ordered |->
            [name |-> lower(ordered[i].name), ariaSelected |-> JsNull]]

hide_activities(style) ==
    [style EXCEPT !.width = "unset", !.minWidth = "unset", !.maxWidth = "",
                  !.container_width = "0px"]

show_activities(style) ==
    [style EXCEPT !.minWidth = "", !.container_width = ""]

\* update_state: the buttons after the loop over this.buttons
update_buttons(btns, current) ==
    [i \in DOMAIN btns |->
        [btns[i] EXCEPT !.ariaSelected =
            IF loose_equal(btns[i].name, current) THEN "true" ELSE "false"]]

\* update_state: the activities after the loop over this.activities
update_activities(acts, current) ==
    [i \in DOMAIN acts |->
        [acts[i] EXCEPT !.active = loose_equal(lower(acts[i].name), current)]]

\* change_activity that deselects the current activity whatever toggle is
change_activity_always_toggle(name, toggle, op) ==
    LET lowered == lower(name)
        current == IF loose_equal(activity, lowered) THEN JsNull ELSE lowered
    IN  /\ activity' = current
        /\ bar_style' = IF falsy(current) THEN hide_activities(bar_style)
                        ELSE show_activities(bar_style)
        /\ buttons' = update_buttons(buttons, current)
        /\ activities' = update_activities(activities, current)
        /\ bar_pc' = "changed"
        /\ bar_last' = [op |-> op, name |-> name, toggle |-> toggle]

\* change_activity(name, toggle), with update_state
change_activity(name, toggle, op) ==
    LET lowered == lower(name)
        current == IF loose_equal(activity, lowered) /\ toggle
                   THEN JsNull ELSE lowered
    IN  /\ activity' = current
        /\ bar_style' = IF falsy(current) THEN hide_activities(bar_style)
                        ELSE show_activities(bar_style)
        /\ buttons' = update_buttons(buttons, current)
        /\ activities' = update_activities(activities, current)
        /\ bar_pc' = "changed"
        /\ bar_last' = [op |-> op, name |-> name, toggle |-> toggle]

\* the side bar's state while the viewer or the painter runs
SideBarIdle ==
    /\ activity = Undefined
    /\ buttons = <<>>
    /\ activities = <<>>
    /\ bar_style = Null
    /\ bar_pc = "idle"
    /\ bar_last = Null

\* a side bar after its first render
SideBarInit ==
    /\ activity = Undefined
    /\ activities \in ActivityLists
    /\ buttons = render(activities)
    /\ bar_style = [width |-> "", minWidth |-> "", maxWidth |-> "",
                    container_width |-> ""]
    /\ bar_pc = "rendered"
    /\ bar_last = [op |-> "render", name |-> Undefined, toggle |-> FALSE]

\* initialContentCallback: the first activity becomes the current one and
\* the click listener is registered
initialContentCallback ==
    /\ bar_pc = "rendered"
    /\ LET default_activity == IF activities = <<>> THEN Undefined
                               ELSE activities[1].name
       IN  IF ~falsy(default_activity)
           THEN change_activity(default_activity, FALSE,
                                "initialContentCallback")
           ELSE /\ bar_pc' = "ready"
                /\ bar_last' = [op |-> "initialContentCallback",
                                name |-> Undefined, toggle |-> FALSE]
                /\ UNCHANGED <<activity, buttons, activities, bar_style>>

\* the click listener, for a click on or inside a button
button_click(i) ==
    /\ bar_pc \in {"ready", "changed"}
    /\ change_activity(buttons[i].name, TRUE, "click")

\* the click listener, for a click that is not on a button
click_outside ==
    /\ bar_pc \in {"ready", "changed"}
    /\ bar_last' = [op |-> "click outside", name |-> Undefined,
                    toggle |-> FALSE]
    /\ UNCHANGED <<activity, buttons, activities, bar_style, bar_pc>>

\* the setter of the activity property
set_activity(name) ==
    /\ bar_pc \in {"ready", "changed"}
    /\ change_activity(name, FALSE, "set activity")

\* change_activity called by the embedding page
call_change_activity(name, toggle) ==
    /\ bar_pc \in {"ready", "changed"}
    /\ change_activity(name, toggle, "change_activity")

\* the names the embedding page passes
Names == {"Layers", "LAYERS", "objects", "Info", "search", "", JsNull, Undefined}

----------------------------------------------------------------------------
(* Specification of the viewer *)

Init == ViewerInit /\ PainterIdle /\ SideBarIdle

Next ==
    \/ setup /\ UNCHANGED <<painter_vars, side_bar_vars>>
    \/ dispose /\ UNCHANGED <<painter_vars, side_bar_vars>>
    \/ draw /\ UNCHANGED <<painter_vars, side_bar_vars>>
    \/ \E zoom \in Zooms : on_viewport_change(zoom) /\ UNCHANGED <<painter_vars, side_bar_vars>>
    \/ animation_frame /\ UNCHANGED <<painter_vars, side_bar_vars>>
    \/ \E type \in {"mousemove", "panzoom"}, e \in ScreenPoints :
          on_mouse_change(type, e) /\ UNCHANGED <<painter_vars, side_bar_vars>>
    \/ \E ok \in BOOLEAN : load(ok) /\ UNCHANGED <<painter_vars, side_bar_vars>>
    \/ \E bb \in ItemBBoxes \cup {Null} : select(bb) /\ UNCHANGED <<painter_vars, side_bar_vars>>
    \/ click /\ UNCHANGED <<painter_vars, side_bar_vars>>
    \/ paint_selected /\ UNCHANGED <<painter_vars, side_bar_vars>>
    \/ zoom_to_selection /\ UNCHANGED <<painter_vars, side_bar_vars>>
    \/ \E i \in 1..(OverlayIndex - 1), v \in BOOLEAN :
          set_layer_visible(i, v) /\ UNCHANGED <<painter_vars, side_bar_vars>>
    \/ \E i \in 1..(OverlayIndex - 1), h \in BOOLEAN :
          set_layer_highlighted(i, h) /\ UNCHANGED <<painter_vars, side_bar_vars>>

Spec == Init /\ [][Next]_vars

----------------------------------------------------------------------------
(* Specification of the painter *)

PaintInit == ViewerInit /\ PainterInit /\ SideBarIdle

PaintNext ==
    \/ assign_layers /\ UNCHANGED <<viewer_vars, side_bar_vars>>
    \/ paint /\ UNCHANGED <<viewer_vars, side_bar_vars>>

PaintSpec == PaintInit /\ [][PaintNext]_vars

----------------------------------------------------------------------------
(* Specification of the activity side bar *)

SideBarStart == ViewerInit /\ PainterIdle /\ SideBarInit

SideBarNext ==
    \/ initialContentCallback /\ UNCHANGED <<viewer_vars, painter_vars>>
    \/ \E i \in DOMAIN buttons :
          button_click(i) /\ UNCHANGED <<viewer_vars, painter_vars>>
    \/ click_outside /\ UNCHANGED <<viewer_vars, painter_vars>>
    \/ \E name \in Names :
          set_activity(name) /\ UNCHANGED <<viewer_vars, painter_vars>>
    \/ \E name \in Names, toggle \in BOOLEAN :
          call_change_activity(name, toggle)
              /\ UNCHANGED <<viewer_vars, painter_vars>>

SideBarSpec == SideBarStart /\ [][SideBarNext]_vars

----------------------------------------------------------------------------
(* Properties of the viewer *)

Calls(op) == {i \in DOMAIN calls : calls[i].op = op}
Called(op) == Calls(op) # {}

\* the select events the last handler dispatched
SelectEvents ==
    {i \in Calls("dispatchEvent") : calls[i].type = "kicanvas:select"}
LoadEvents ==
    {i \in Calls("dispatchEvent") : calls[i].type = "kicanvas:load"}
MouseMoveEvents ==
    {i \in Calls("dispatchEvent") : calls[i].type = "kicanvas:mousemove"}

\* C1: draw() calls made before the next animation frame coalesce: at most
\* one frame callback is pending at any time, and a frame runs on_draw
\* exactly once whatever the number of draw() calls.
C1_DrawCoalesces ==
    /\ frames <= 1
    /\ Cardinality(Calls("on_draw")) <= 1

\* C2: a frame callback that fires after dispose() does nothing: no canvas
\* clear and no layer render reaches the released renderer.
C2_FrameAfterDisposeNoOp ==
    \A i \in Calls("clear_canvas") \cup Calls("render") : ~calls[i].released

\* C3 as stated: whenever set_loaded reports success the loaded future is
\* resolved to true and a load event is dispatched; whenever it reports
\* failure the future is rejected and no load event is dispatched.
C3_EveryOutcomeSettles ==
    \A i \in Calls("set_loaded") :
        IF calls[i].value
        THEN loaded_promise = "resolved_true" /\ LoadEvents # {}
        ELSE loaded_promise = "rejected" /\ LoadEvents = {}

\* C3 amended: set_loaded(true) dispatches a load event and resolves the
\* loaded future to true if it was still pending; set_loaded(false)
\* dispatches no load event and rejects the future if it was still pending;
\* a future that an earlier outcome settled keeps that outcome.
C3_SetLoaded ==
    [][\A i \in Calls("set_loaded")' :
          IF calls'[i].value
          THEN /\ LoadEvents' # {}
               /\ loaded_promise' = IF loaded_promise = "pending"
                                    THEN "resolved_true" ELSE loaded_promise
          ELSE /\ LoadEvents' = {}
               /\ loaded_promise' = IF loaded_promise = "pending"
                                    THEN "rejected" ELSE loaded_promise]_vars

\* a successful load reported on a pending future: resolved, event dispatched
C3_Witness ==
    /\ \E i \in Calls("set_loaded") : calls[i].value
    /\ LoadEvents # {}
    /\ loaded_promise = "resolved_true"

\* C4: selecting null after a selection of item X dispatches a select event
\* whose previous is X's context and whose item is absent, and a deferred
\* repaint that runs while the selection is null leaves the overlay layer
\* without graphics.
C4_SelectNull ==
    [][/\ (Called("set selected")' /\ selected # Null /\ selected' = Null) =>
            /\ SelectEvents' # {}
            /\ \A i \in SelectEvents' :
                  /\ calls'[i].item = Undefined
                  /\ calls'[i].previous = selected.context
       /\ (Called("layer.clear")' /\ selected' = Null) =>
            overlay(layers').graphics = Null]_vars

\* null has just been selected after R1 while the overlay still shows an outline
C4_Witness ==
    /\ Called("set selected")
    /\ selected = Null
    /\ \E i \in SelectEvents : calls[i].previous = "R1"
    /\ layers # <<>>
    /\ overlay(layers).graphics # Null

\* the layers that hold a box containing the point
LayersAt(p) ==
    {i \in 1..Len(layers) :
        \E j \in 1..Len(layers[i].bboxes) : contains_point(layers[i].bboxes[j], p)}

Max(S) == CHOOSE m \in S : \A n \in S : n <= m

\* C5: a click queries the layer set at the current world mouse position
\* and selects the box of the topmost layer under it, and only that one;
\* with nothing under the mouse the selection is cleared.
C5_ClickPicksTopmost ==
    (Called("click") /\ ~Called("throw")) =>
        /\ \A i \in Calls("query_point") : calls[i].at = mouse_position
        /\ Cardinality(Calls("set selected")) = 1
        /\ IF LayersAt(mouse_position) = {}
           THEN selected = Null
           ELSE LET top == layers[Max(LayersAt(mouse_position))]
                IN  /\ selected = top.bboxes[Len(top.bboxes)]
                    /\ contains_point(selected, mouse_position)

\* a click where the boxes of both layers contain the mouse position
C5_Witness ==
    /\ Called("click")
    /\ Cardinality(LayersAt(mouse_position)) = 2
    /\ selected = WireBBox

\* C6: with a non-overlay layer highlighted, every rendered layer that is
\* neither highlighted nor the overlay is rendered at the dim alpha, and
\* every highlighted layer and the overlay at their own opacity; with no
\* layer highlighted every rendered layer uses its own opacity.
C6_DimOnlyOtherLayers ==
    \A i \in Calls("render") :
        \A k \in 1..Len(layers) :
            layers[k].name = calls[i].layer =>
                calls[i].alpha =
                    IF /\ \E h \in 1..Len(layers) :
                             layers[h].name # ":Overlay" /\ layers[h].highlighted
                       /\ ~layers[k].highlighted
                       /\ layers[k].name # ":Overlay"
                    THEN DimAlpha
                    ELSE layers[k].opacity

\* C7: a call that sets the selection updates it and dispatches the select
\* event inside the call and queues the repaint; the repaint itself
\* (paint_selected and its drawing on the overlay) is never part of that
\* call, nor of any other handler: it only runs as a task of its own.
C7_RepaintDeferred ==
    /\ Called("set selected") =>
          /\ SelectEvents # {}
          /\ \A i \in SelectEvents :
                calls[i].item = IF selected = Null THEN Undefined
                                ELSE selected.context
          /\ Cardinality(Calls("later")) = 1
          /\ tasks >= 1
          /\ ~Called("paint_selected") /\ ~Called("layer.clear")
          /\ ~Called("start_layer") /\ ~Called("end_layer")
    /\ \A i \in Calls("paint_selected") : i = 1

\* an item has just been selected: event dispatched, repaint still queued
C7_Witness ==
    /\ Called("set selected")
    /\ selected # Null
    /\ tasks = 1
    /\ layers # <<>>
    /\ overlay(layers).graphics = Null

\* C8: every mousemove or panzoom event recomputes the world position of
\* the mouse; a mouse-move event is dispatched if and only if it differs
\* from the stored one, which then takes the new value; when it is
\* identical the stored position is unchanged and no event is dispatched.
C8_MouseMoveOnlyOnChange ==
    [][\A i \in Calls("on_mouse_change")' :
          LET new_position == <<calls'[i].screen[1] * camera,
                                calls'[i].screen[2] * camera>>
          IN  /\ mouse_position' = new_position
              /\ (MouseMoveEvents' # {}) <=> (new_position # mouse_position)
              /\ \A j \in MouseMoveEvents' :
                    calls'[j].position = new_position]_vars

\* an event away from the origin that reports the stored position again
C8_Witness ==
    /\ Called("on_mouse_change")
    /\ MouseMoveEvents = {}
    /\ mouse_position # <<0, 0>>

\* C12: draw() called before setup() has completed does nothing: no frame
\* callback is requested or left pending, nothing is painted and no error
\* is raised.
C12_DrawBeforeSetupNoOp ==
    ~viewport =>
        /\ frames = 0
        /\ ~Called("on_draw") /\ ~Called("clear_canvas") /\ ~Called("render")
        /\ Called("draw") => \A i \in DOMAIN calls : calls[i].op = "draw"

\* draw() has been called on a viewer that was never set up
C12_Witness ==
    /\ ~viewport
    /\ Called("draw")

\* C13: the loaded future is created once and settles once: when an
\* outcome has settled it, no later report of success or failure changes
\* its outcome.
C13_LoadedOneShot ==
    [][loaded_promise # "pending" => loaded_promise' = loaded_promise]_vars

\* a success reported after a failure: the future stays rejected
C13_Witness ==
    /\ \E i \in Calls("set_loaded") : calls[i].value
    /\ loaded_promise = "rejected"

\* C14: zoom_to_selection() with nothing selected changes neither the
\* camera nor the pending frames; with a selection, on a viewer that has
\* been set up, it fits the camera to the selection's box grown by the
\* margin 10 on every side, leaves the selection as it was, and schedules
\* one redraw.
C14_ZoomToSelection ==
    [][Called("zoom_to_selection")' =>
          IF selected = Null
          THEN /\ camera' = camera /\ frames' = frames
               /\ ~Called("draw")' /\ ~Called("requestAnimationFrame")'
               /\ ~Called("set camera.bbox")'
          ELSE viewport =>
               /\ \E i \in Calls("set camera.bbox")' :
                     /\ calls'[i].bbox =
                            BBox(selected.x - 10, selected.y - 10,
                                 selected.w + 20, selected.h + 20,
                                 selected.context)
                     /\ camera' = fit(calls'[i].bbox)
               /\ selected' = selected
               /\ frames' = frames + 1
               /\ Cardinality(Calls("requestAnimationFrame")') = 1]_vars

\* the camera has just been fitted to the wire's box and a redraw is pending
C14_Witness ==
    /\ Called("set camera.bbox")
    /\ selected = WireBBox
    /\ camera = 2
    /\ frames > 0

\* the layers of a set that on_draw renders, in display order
Rendered(ls) ==
    LET Shown(l) == l.visible /\ l.graphics # Null
    IN  SelectSeq(in_display_order(ls), Shown)

\* C16: one on_draw pass renders exactly the layers that are visible and
\* have compiled graphics, in display order; the first at depth 0.01 and
\* each next one 0.01 deeper than the one rendered before it, so a skipped
\* layer takes no depth step.
C16_RenderVisibleInOrder ==
    \A d \in Calls("on_draw") :
        LET shown == Rendered(layers)
            end == d + 1 + Len(shown)
        IN  /\ end <= Len(calls)
            /\ \A k \in 1..Len(shown) :
                  /\ calls[d + 1 + k].op = "render"
                  /\ calls[d + 1 + k].layer = shown[k].name
                  /\ calls[d + 1 + k].depth = k * DepthStep
            /\ end < Len(calls) => calls[end + 1].op = "on_draw"

\* a frame drawn with the notes layer hidden: the wire layer is the first
\* and takes the first depth
C16_Witness ==
    /\ Called("on_draw")
    /\ layers # <<>>
    /\ ~layers[1].visible
    /\ \E i \in Calls("render") :
          calls[i].layer = ":Wire" /\ calls[i].depth = DepthStep

\* C19: with layers established and the viewer not disposed, a deferred
\* repaint that has run leaves the overlay showing the selection current at
\* that moment, whichever selection change queued it: no graphics when it
\* is null, else the outline of the selected box; and the repaint ends by
\* scheduling a redraw. So once the last queued repaint has run the overlay
\* shows the latest selection.
C19_OverlayReflectsSelection ==
    (Called("paint_selected") /\ layers # <<>> /\ ~disposed) =>
        /\ overlay(layers).graphics =
              IF selected = Null THEN Null
              ELSE [compiled |-> ":Overlay",
                    outline |-> grow_selected(selected),
                    composite_operation |-> "overlay"]
        /\ Len(calls) >= 2
        /\ calls[Len(calls) - 1].op = "draw"
        /\ calls[Len(calls)].op = "requestAnimationFrame"
        /\ frames > 0

\* the first of two queued repaints has run and already shows the second
\* selection
C19_Witness ==
    /\ Called("paint_selected")
    /\ ~disposed
    /\ tasks = 1
    /\ selected = WireBBox
    /\ layers # <<>>
    /\ overlay(layers).graphics # Null
    /\ overlay(layers).graphics.outline.context = "W1"

\* C20: after setup() and before any layers are established, a click and a
\* select call (with its deferred repaint) are handled without a fault.
C20_NoFaultBeforeLayers ==
    (viewport /\ layers = <<>>) => ~Called("throw")

----------------------------------------------------------------------------
(* Properties of the painter *)

\* C9: an item whose class has no registered painter gets no layer from
\* layers_for and no primitive from paint_item, and both return normally.
C9_UnknownItemContributesNothing ==
    (ppc \in {"assigned", "painted"} /\ item.class \notin PainterClasses) =>
        /\ item_layers = <<>>
        /\ prims = <<>>

\* an item without a painter has been through layers_for and paint_item
C9_Witness ==
    /\ ppc = "painted"
    /\ item.class = "NoConnect"

\* the stroke primitives among the emitted ones
StrokePrims == {i \in DOMAIN prims : prims[i].kind \in {"line", "arc"}}

\* C10: the stroke color of a painted rectangle, polyline, circle or arc is
\* the item's own stroke color unless it is fully transparent, else the
\* renderer's current stroke color, else the theme's note color, else the
\* error color.
C10_StrokeColorFallback ==
    (ppc = "painted"
        /\ item.class \in {"Rectangle", "Polyline", "Circle", "Arc"}) =>
        /\ StrokePrims # {}
        /\ \A i \in StrokePrims :
              prims[i].color =
                  IF item.stroke.color # Transparent THEN item.stroke.color
                  ELSE IF gfx.state.stroke # Undefined THEN gfx.state.stroke
                  ELSE IF gfx.theme.note # Undefined THEN gfx.theme.note
                  ELSE ErrorColor

\* C11: for every registered item type and every layer, when paint_item
\* returns the renderer's drawing state (stroke, fill, transform and the
\* depth of the state stack) is what it was before the call.
C11_StateRestored ==
    [][ppc' = "painted" => gfx' = gfx]_vars

\* the points of the outline among the primitives of a painted label
ShapePoints(ps) ==
    LET i == CHOOSE j \in DOMAIN ps : "points" \in DOMAIN ps[j]
    IN  ps[i].points

\* the horizontal extent of a sequence of points
Extent(points) ==
    LET xs == {points[i][1] : i \in DOMAIN points}
    IN  Max(xs) + Max({-x : x \in xs})

\* the same label with the undecorated shape, painted the same way
PassivePrims ==
    paint_item(gfx, layer_name, [item EXCEPT !.shape = "passive"]).prims

\* C15 as stated: the outline of a global label with shape "input" is
\* wider than the outline of the same label with the passive shape by
\* exactly size.y * 0.75.
C15_InputTailTriangleOffset ==
    (ppc = "painted" /\ item.class = "GlobalLabel" /\ item.shape = "input"
        /\ ~item.effects.hide) =>
        Extent(ShapePoints(prims)) - Extent(ShapePoints(PassivePrims)) =
            Scaled(item.effects.size.y, 7500)

\* C15 amended: the outline of a global label with shape "input" is wider
\* than the outline of the same label with the passive shape by exactly
\* half the text height plus the label margin, size.y / 2 + size.y * 0.375;
\* size.y * 0.75 is what the shape adds to the horizontal offset of the
\* label's text.
C15_InputTailHalfSize ==
    (ppc = "painted" /\ item.class = "GlobalLabel" /\ item.shape = "input"
        /\ ~item.effects.hide) =>
        /\ Extent(ShapePoints(prims)) - Extent(ShapePoints(PassivePrims)) =
              item.effects.size.y \div 2 + Scaled(item.effects.size.y, 3750)
        /\ \A i \in DOMAIN prims : \A j \in DOMAIN PassivePrims :
              (prims[i].kind = "text" /\ PassivePrims[j].kind = "text"
                  /\ item.at.rotation = 0) =>
                 prims[i].at[1] - PassivePrims[j].at[1] =
                     Scaled(item.effects.size.y, 7500)

\* an input global label of text size 1.6 at rotation 0 has been painted
C15_Witness ==
    /\ ppc = "painted"
    /\ item.class = "GlobalLabel" /\ item.shape = "input"
    /\ ~item.effects.hide
    /\ item.effects.size.y = 16000
    /\ item.at.rotation = 0
    /\ Extent(ShapePoints(prims)) - Extent(ShapePoints(PassivePrims)) = 14000

\* the graphics of a library symbol and of its children
RECURSIVE AllGraphics(_)
AllGraphics(s) ==
    s.graphics \o Concat([i \in DOMAIN s.children |-> AllGraphics(s.children[i])])

PinPrims == {i \in DOMAIN prims : prims[i].color = gfx.theme.pin}
\* the text among the emitted primitives
TextPrimSet == {i \in DOMAIN prims : prims[i].kind = "text"}
GraphicPrims == DOMAIN prims \ (PinPrims \cup TextPrimSet)
FillPrims == {i \in GraphicPrims : prims[i].kind \in {"polygon", "circle"}}

\* C17: painting a symbol instance emits pin primitives only on the pin
\* sub-layer, field text only on the field sub-layer and library graphics
\* only on the foreground and background sub-layers; the fill of a graphic
\* is the body fill only for a graphic whose fill is "background" on the
\* background layer, the outline fill only for one whose fill is "outline"
\* on the foreground layer, and transparent in every other case.
C17_SymbolInstanceLayers ==
    (ppc = "painted" /\ item.class = "SymbolInstance") =>
        LET graphics == AllGraphics(item.lib_symbol)
            Has(fill) == \E k \in DOMAIN graphics : graphics[k].fill = fill
        IN  /\ PinPrims # {} => layer_name = ":Symbol:Pin"
            /\ TextPrimSet # {} => layer_name = ":Symbol:Field"
            /\ GraphicPrims # {} =>
                  layer_name \in {":Symbol:Foreground", ":Symbol:Background"}
            /\ \A i \in FillPrims :
                  /\ prims[i].color \in {gfx.theme.component_body,
                                         gfx.theme.component_outline,
                                         Transparent}
                  /\ prims[i].color = gfx.theme.component_body =>
                        layer_name = ":Symbol:Background" /\ Has("background")
                  /\ prims[i].color = gfx.theme.component_outline =>
                        layer_name = ":Symbol:Foreground" /\ Has("outline")

\* the rotation of the painted item; a field turns with its parent symbol
ItemRotation ==
    IF item.class = "Property"
    THEN item.parent.at.rotation + item.at.rotation
    ELSE item.at.rotation

\* C18: for a text, a label, a global label, a hierarchical label and a
\* field, at every rotation that is a multiple of 90 degrees, the text is
\* laid out at 0 or at 90 degrees: a rotation that normalizes to 180 is
\* laid out as 0 and one that normalizes to 270 as 90.
C18_TextUpright ==
    (ppc = "painted"
        /\ item.class \in {"Text", "Label", "GlobalLabel",
                           "HierarchicalLabel", "Property"}) =>
        /\ (~item.effects.hide /\ item.class # "Property") => TextPrimSet # {}
        /\ \A i \in TextPrimSet :
              /\ prims[i].rotation \in {0, 90}
              /\ prims[i].rotation = ItemRotation % 180

\* a hierarchical label at -90 degrees, which normalizes to 270, has been
\* painted with its text at 90
C18_Witness ==
    /\ ppc = "painted"
    /\ item.class = "HierarchicalLabel"
    /\ item.at.rotation = -90
    /\ \E i \in TextPrimSet : prims[i].rotation = 90

\* the layer names used in the painter
LayerNames ==
    {":Notes", ":Wire", ":Junction", ":Label", ":Overlay",
     ":Symbol:Foreground", ":Symbol:Background", ":Symbol:Field",
     ":Symbol:Pin"}

\* C21: the layer layers_for reports for a Property item is the field
\* sub-layer that symbol instances declare and on which their properties
\* are painted, ":Symbol:Field"; and every layer name a registered painter
\* returns is one of the layer names used in the painter.
C21_LayerNamesKnown ==
    ppc \in {"assigned", "painted"} =>
        /\ \A i \in DOMAIN item_layers : item_layers[i] \in LayerNames
        /\ item.class = "Property" =>
              /\ item_layers = <<":Symbol:Field">>
              /\ \E i \in DOMAIN SymbolInstancePainter_layers(item) :
                    SymbolInstancePainter_layers(item)[i] = item_layers[1]

----------------------------------------------------------------------------
(* Properties of the activity side bar *)

SelectedButtons == {i \in DOMAIN buttons : buttons[i].ariaSelected = "true"}

\* the buttons, the activity elements and the container agree with the
\* current activity
SideBarConsistent ==
    /\ \A i \in DOMAIN buttons :
          (i \in SelectedButtons) <=> (buttons[i].name = activity)
    /\ \A i \in DOMAIN buttons :
          buttons[i].ariaSelected \in {"true", "false"}
    /\ Cardinality(SelectedButtons) <= 1
    /\ \A i \in DOMAIN activities :
          activities[i].active <=> (toLowerCase(activities[i].name) = activity)
    /\ (bar_style.container_width = "0px") <=>
          (activity \in {JsNull, Undefined, ""})

\* C22: once change_activity has run, after every change_activity call,
\* assignment of the activity property and button click: a button is
\* aria-selected exactly when its name is the current activity, so at most
\* one is; an activity element is active exactly when its lower-cased name
\* is the current activity; the container is collapsed exactly when there
\* is no current activity (null, undefined or the empty name). A click on
\* the selected button leaves no current activity and no button selected;
\* assigning the current name to the activity property changes nothing.
C22_SideBarState ==
    [][bar_pc' = "changed" =>
          /\ SideBarConsistent'
          /\ (bar_last'.op = "click"
                 /\ \E i \in SelectedButtons :
                       buttons[i].name = bar_last'.name) =>
                /\ activity' = JsNull
                /\ SelectedButtons' = {}
                /\ bar_style'.container_width = "0px"
          /\ (bar_last'.op = "set activity" /\ bar_last' # bar_last
                 /\ activity \notin {JsNull, Undefined, ""}
                 /\ toLowerCase(bar_last'.name) = activity) =>
                /\ activity' = activity
                /\ SelectedButtons' = SelectedButtons
                /\ bar_style'.container_width = ""]_vars

\* the selected button of a bar with two activities has just been clicked
C22_Witness ==
    /\ bar_pc = "changed"
    /\ bar_last.op = "click"
    /\ bar_last.name = "layers"
    /\ Len(buttons) = 2
    /\ activity = JsNull
    /\ SelectedButtons = {}
    /\ bar_style.container_width = "0px"

====
